---- MODULE Spec2Model ----
(***************************************************************************)
(* Model of the LINE health-logging webhook (app/api/line/webhook/route.ts *)
(* and lib/sheets.ts).                                                     *)
(*                                                                         *)
(* Text is a sequence of glyphs (one string per character), so that        *)
(* String.prototype.includes is a real substring search and keyword        *)
(* overlaps of the source text are overlaps of the model too.  Japanese    *)
(* characters are written with ASCII glyph names; the character each one   *)
(* stands for is given where the keyword is defined.                       *)
(***************************************************************************)
EXTENDS Integers, Sequences, FiniteSets, TLC

VARIABLES
    \* ---- classifier harness (pure functions of route.ts) ----
    cidx,       \* index of the text under classification in the corpus
    cnow,       \* the Date `now` the classifier functions are given
    cpc,        \* "input" | "classified"
    cres,       \* the results of the classifier functions on the text
    cseen,      \* the <<category, mealType>> pairs that came out so far
    \* ---- callOpenAIWithRetry harness ----
    rcall,      \* the state of one callOpenAIWithRetry invocation
    rmax,       \* its maxRetries argument
    rhist,      \* what each completions.create call of it did, in order
    \* ---- webhook POST ----
    req,        \* the request: secret, body, events, signature
    today,      \* the Date `new Date()` gives while the request is handled
    pc,         \* position of POST: "start" | "tasks" | "done"
    response,   \* 0 while none, else the HTTP status returned
    task,       \* per event: the state of its async task
    effects,    \* per event: external calls performed for it
    sheets,     \* the spreadsheet: sheet name -> sequence of rows
    sheets0,    \* the spreadsheet as it was when the request came in
    \* ---- reminder GET ----
    USER_ID,    \* process.env.LINE_USER_ID as read when the module loads
    gtype,      \* the `type` query parameter of the request
    gpc,        \* position of GET: "start" | "pushed" | "done"
    gresponse,  \* the response returned
    pushes      \* the push deliveries attempted, with how each ended

classVars == <<cidx, cnow, cpc, cres, cseen>>
retryVars == <<rcall, rmax, rhist>>
webVars   == <<req, today, pc, response, task, effects, sheets, sheets0>>
remVars   == <<USER_ID, gtype, gpc, gresponse, pushes>>
vars      == <<cidx, cnow, cpc, cres, cseen, rcall, rmax, rhist,
               req, today, pc, response, task, effects, sheets, sheets0,
               USER_ID, gtype, gpc, gresponse, pushes>>

NULL == "null"

(***************************************************************************)
(* Bounds                                                                  *)
(***************************************************************************)
\* number of vocabulary words a corpus text is made of, at most
MaxWords == 2
\* largest maxRetries argument tried on callOpenAIWithRetry
MaxRetriesArg == 4
\* number of events in one webhook delivery, at most
MaxEvents == 2

(***************************************************************************)
(* Text                                                                    *)
(***************************************************************************)
\* String.prototype.includes: kw occurs in text as a contiguous substring
Includes(text, kw) ==
    \E i \in 1..(Len(text) - Len(kw) + 1) :
        SubSeq(text, i, i + Len(kw) - 1) = kw

\* String.prototype.toLowerCase, on the letters the corpus uses
ToLowerGlyph(g) ==
    CASE g = "L" -> "l"
      [] g = "R" -> "r"
      [] g = "T" -> "t"
      [] OTHER -> g

ToLowerCase(text) == [i \in 1..Len(text) |-> ToLowerGlyph(text[i])]

RECURSIVE TrimStart(_)
TrimStart(text) ==
    IF text # <<>> /\ Head(text) = " " THEN TrimStart(Tail(text)) ELSE text

RECURSIVE TrimEnd(_)
TrimEnd(text) ==
    IF text # <<>> /\ text[Len(text)] = " "
    THEN TrimEnd(SubSeq(text, 1, Len(text) - 1))
    ELSE text

\* String.prototype.trim
Trim(text) == TrimEnd(TrimStart(text))

\* ---- keywords of route.ts, glyph by glyph ----
KwAsa        == <<"asa">>                          \* U+671D (morning)
KwBreakfast  == <<"b","r","e","a","k","f","a","s","t">>
KwHiru       == <<"hiru">>                         \* U+663C (noon)
KwRanchi     == <<"ra_k","n_k","chi_k">>           \* katakana ra-n-chi
KwLunch      == <<"l","u","n","c","h">>
KwYoru       == <<"yoru">>                         \* U+591C (night)
KwYuu        == <<"yuu">>                          \* U+5915 (evening)
KwDinner     == <<"d","i","n","n","e","r">>
KwKanshoku   == <<"kan","shoku">>                  \* U+9593 U+98DF
KwOyatsu     == <<"o_h","ya_h","tsu_h">>           \* hiragana o-ya-tsu
KwSnack      == <<"s","n","a","c","k">>

KwUndou      == <<"un","dou">>                     \* U+904B U+52D5
KwHashi      == <<"hashi">>                        \* U+8D70 (run)
KwKintore    == <<"kin","to_k","re_k">>            \* U+7B4B + katakana to-re
KwWorkout    == <<"w","o","r","k","o","u","t">>
KwRun        == <<"r","u","n">>

KwMeisou     == <<"mei","sou">>                    \* U+7791 U+60F3
KwMeditation == <<"m","e","d","i","t","a","t","i","o","n">>
KwZazen      == <<"za","zen">>                     \* U+5EA7 U+7985

KwNikki      == <<"hi","ki">>                      \* U+65E5 U+8A18
KwJournal    == <<"ji_k","ya_ks","chouon","na_k","ru_k">>  \* katakana ja-a-na-ru
KwOmotta     == <<"omo","tsu_hs","ta_h">>          \* U+601D + small tsu + ta
KwKanjita    == <<"kanji","ji_h","ta_h">>          \* U+611F + ji + ta

KwKyou       == <<"ima","hi">>                     \* U+4ECA U+65E5 (today)
KwToday      == <<"t","o","d","a","y">>
KwKinou      == <<"saku","hi">>                    \* U+6628 U+65E5 (yesterday)
KwYesterday  == <<"y","e","s","t","e","r","d","a","y">>
KwOtotoi     == <<"ichi","saku","hi">>             \* U+4E00 U+6628 U+65E5

KwKoremade   == <<"ko_h","re_h","ma_h","de_h">>    \* hiragana ko-re-ma-de
KwZenkikan   == <<"zen_a","ki_p","kan">>           \* U+5168 U+671F U+9593
KwSenshuu    == <<"sen","shuu">>                   \* U+5148 U+9031 (last week)
KwKonshuu    == <<"ima","shuu">>                   \* U+4ECA U+9031 (this week)
KwKongetsu   == <<"ima","tsuki">>                  \* U+4ECA U+6708 (this month)

(***************************************************************************)
(* Dates.  A Date is an instant, [day, hour]: the day number since         *)
(* 1970-01-01 and the hour of that day, both in UTC; with it goes tz, the  *)
(* hours the zone of the process is ahead of UTC (no daylight saving).     *)
(* toISOString().split("T")[0] is the civil date <<year, month, day>> of   *)
(* the UTC day, which orders like the "YYYY-MM-DD" string; getDate,        *)
(* getDay, getMonth, getFullYear and the Date(y, m, d) constructor work on *)
(* the local day.                                                          *)
(***************************************************************************)
\* the civil date of day number n
CivilDate(n) ==
    LET z   == n + 719468
        era == z \div 146097
        doe == z - era * 146097
        yoe == (doe - (doe \div 1460) + (doe \div 36524) - (doe \div 146096)) \div 365
        doy == doe - (365 * yoe + (yoe \div 4) - (yoe \div 100))
        mp  == (5 * doy + 2) \div 153
        d   == doy - ((153 * mp + 2) \div 5) + 1
        m   == IF mp < 10 THEN mp + 3 ELSE mp - 9
        y   == yoe + era * 400 + (IF m <= 2 THEN 1 ELSE 0)
    IN  <<y, m, d>>

\* date.toISOString().split("T")[0]
ISODate(date) == CivilDate(date.day)

\* new Date("YYYY-MM-DD").getTime() / (1000*60*60*24): the day number of a
\* civil date (the string is read as UTC midnight)
DayNumber(iso) ==
    LET y   == iso[1] - (IF iso[2] <= 2 THEN 1 ELSE 0)
        era == y \div 400
        yoe == y - era * 400
        mp  == (iso[2] + 9) % 12
        doy == ((153 * mp + 2) \div 5) + iso[3] - 1
        doe == yoe * 365 + (yoe \div 4) - (yoe \div 100) + doy
    IN  era * 146097 + doe - 719468

\* the day number of the local day of a Date
LocalDay(date) == date.day + ((date.hour + date.tz) \div 24)

\* d.setDate(date.getDate() + k), d a copy of date
AddDays(date, k) == [date EXCEPT !.day = @ + k]

\* Date.prototype.getDay: 0 = Sunday; 1970-01-01 was a Thursday
GetDay(date) == (LocalDay(date) + 4) % 7

\* new Date(date.getFullYear(), date.getMonth(), 1): local midnight of the
\* first day of the local month
FirstOfMonth(date) ==
    LET first == LocalDay(date) - (CivilDate(LocalDay(date))[3] - 1)
    IN  [day  |-> first + ((0 - date.tz) \div 24),
         hour |-> (0 - date.tz) % 24,
         tz   |-> date.tz]

\* the Date of the harnesses while nothing runs
NoDate == [day |-> 0, hour |-> 0, tz |-> 0]

\* the "ALL" sentinel of detectDateRange / getMealLogsByRange
ALL == <<0, 0, 0>>

\* string comparison a <= b of two "YYYY-MM-DD" strings
IsoLeq(a, b) ==
    \/ a[1] < b[1]
    \/ a[1] = b[1] /\ a[2] < b[2]
    \/ a[1] = b[1] /\ a[2] = b[2] /\ a[3] <= b[3]

(***************************************************************************)
(* Classifier functions                                                    *)
(***************************************************************************)
detectMealType(userText) ==
    LET text == ToLowerCase(userText) IN
    IF Includes(text, KwAsa) \/ Includes(text, KwBreakfast) THEN "breakfast"
    ELSE IF Includes(text, KwHiru) \/ Includes(text, KwRanchi) \/ Includes(text, KwLunch)
         THEN "lunch"
    ELSE IF Includes(text, KwYoru) \/ Includes(text, KwYuu) \/ Includes(text, KwDinner)
         THEN "dinner"
    ELSE IF Includes(text, KwKanshoku) \/ Includes(text, KwOyatsu) \/ Includes(text, KwSnack)
         THEN "snack"
    ELSE NULL

\* (variant: the exercise keywords are tested before the meal keywords)
detectLogCategoryExerciseFirst(userText) ==
    LET text == ToLowerCase(userText) IN
    IF \/ Includes(text, KwUndou) \/ Includes(text, KwHashi)
       \/ Includes(text, KwKintore) \/ Includes(text, KwWorkout)
       \/ Includes(text, KwRun)
    THEN "exercise"
    ELSE IF detectMealType(userText) # NULL THEN "meal"
    ELSE IF Includes(text, KwMeisou) \/ Includes(text, KwMeditation) \/ Includes(text, KwZazen)
         THEN "meditation"
    ELSE IF \/ Includes(text, KwNikki) \/ Includes(text, KwJournal)
            \/ Includes(text, KwOmotta) \/ Includes(text, KwKanjita)
         THEN "journal"
    ELSE NULL

\* (variant: a text that says something was eaten is a meal too)
detectLogCategoryAte(userText) ==
    LET text == ToLowerCase(userText) IN
    IF detectMealType(userText) # NULL \/ Includes(text, <<"shoku","be_h","ta_h">>)
    THEN "meal"
    ELSE IF \/ Includes(text, KwUndou) \/ Includes(text, KwHashi)
            \/ Includes(text, KwKintore) \/ Includes(text, KwWorkout)
            \/ Includes(text, KwRun)
         THEN "exercise"
    ELSE IF Includes(text, KwMeisou) \/ Includes(text, KwMeditation) \/ Includes(text, KwZazen)
         THEN "meditation"
    ELSE IF \/ Includes(text, KwNikki) \/ Includes(text, KwJournal)
            \/ Includes(text, KwOmotta) \/ Includes(text, KwKanjita)
         THEN "journal"
    ELSE NULL

detectLogCategory(userText) ==
    LET text == ToLowerCase(userText) IN
    IF detectMealType(userText) # NULL THEN "meal"
    ELSE IF \/ Includes(text, KwUndou) \/ Includes(text, KwHashi)
            \/ Includes(text, KwKintore) \/ Includes(text, KwWorkout)
            \/ Includes(text, KwRun)
         THEN "exercise"
    ELSE IF Includes(text, KwMeisou) \/ Includes(text, KwMeditation) \/ Includes(text, KwZazen)
         THEN "meditation"
    ELSE IF \/ Includes(text, KwNikki) \/ Includes(text, KwJournal)
            \/ Includes(text, KwOmotta) \/ Includes(text, KwKanjita)
         THEN "journal"
    ELSE NULL

detectMealDate(userText, now) ==
    LET text == ToLowerCase(userText) IN
    IF Includes(text, KwKyou) \/ Includes(text, KwToday) THEN ISODate(now)
    ELSE IF Includes(text, KwKinou) \/ Includes(text, KwYesterday)
         THEN ISODate(AddDays(now, -1))
    ELSE IF Includes(text, KwOtotoi) THEN ISODate(AddDays(now, -2))
    ELSE ISODate(now)

\* detectDateRange returns {start, end}, written <<start, end>>, or null
NoRange == <<>>

\* detectDateRange reads the clock itself; `now` is that reading
detectDateRange(userText, now) ==
    IF Includes(userText, KwKoremade) \/ Includes(userText, KwZenkikan)
    THEN <<ALL, ALL>>
    ELSE IF Includes(userText, KwSenshuu)
         THEN LET end   == AddDays(now, -1)
                  start == AddDays(end, -6)
              IN  <<ISODate(start), ISODate(end)>>
    ELSE IF Includes(userText, KwKonshuu)
         THEN LET day == IF GetDay(now) = 0 THEN 7 ELSE GetDay(now)
              IN  <<ISODate(AddDays(now, 0 - (day - 1))), ISODate(now)>>
    ELSE IF Includes(userText, KwKongetsu)
         THEN <<ISODate(FirstOfMonth(now)), ISODate(now)>>
    ELSE NoRange

\* (variant: a range phrase makes a summary request whatever the category)
BranchRangeFirst(userText, now) ==
    LET category == detectLogCategory(userText)
        range    == detectDateRange(userText, now)
    IN  IF range # NoRange THEN "summary"
        ELSE IF category = "meal" THEN "meal"
        ELSE IF category = "exercise" THEN "exercise"
        ELSE IF category = "meditation" THEN "meditation"
        ELSE IF category = "journal" THEN "journal"
        ELSE "chat"

\* the branch of the per-event handler a trimmed, non-empty text takes
Branch(userText, now) ==
    LET category == detectLogCategory(userText)
        range    == detectDateRange(userText, now)
    IN  IF range # NoRange /\ category = "meal" THEN "summary"
        ELSE IF category = "meal" THEN "meal"
        ELSE IF category = "exercise" THEN "exercise"
        ELSE IF category = "meditation" THEN "meditation"
        ELSE IF category = "journal" THEN "journal"
        ELSE "chat"

(***************************************************************************)
(* callOpenAIWithRetry                                                     *)
(***************************************************************************)
\* e.status of an error that carries none (undefined)
NoStatus == 0

\* statuses the completion service fails with
Statuses == {NoStatus, 400, 401, 429, 500, 503}

\* A generated text is a sequence of lines; a line is [label, sep, value,
\* fill]: the label before the separator, the separator, the glyphs after
\* it, and the number of further characters (prose) that follow them.
ReportFull ==
    << [label |-> "kcal",    sep |-> ":",  value |-> <<" ","5","2","0"," ","k">>, fill |-> 3],
       [label |-> "protein", sep |-> "fw", value |-> <<"1","2",".","5">>, fill |-> 2],
       [label |-> "fat",     sep |-> ":",  value |-> <<"8">>, fill |-> 2],
       [label |-> "carbs",   sep |-> ":",  value |-> <<"6","0">>, fill |-> 2],
       [label |-> "b6",      sep |-> ":",  value |-> <<"0",".","3">>, fill |-> 3],
       [label |-> "d",       sep |-> ":",  value |-> <<"1">>, fill |-> 3],
       [label |-> "mg",      sep |-> ":",  value |-> <<"4","0">>, fill |-> 3],
       [label |-> "iron",    sep |-> ":",  value |-> <<"2">>, fill |-> 3],
       [label |-> "zinc",    sep |-> ":",  value |-> <<"1">>, fill |-> 3] >>

\* a text that does not keep to the format and runs on for 1200 characters
ReportGarbled ==
    << [label |-> "kcal",    sep |-> ":",  value |-> <<"a","b","o","u","t">>, fill |-> 0],
       [label |-> "fat",     sep |-> "-",  value |-> <<"8">>, fill |-> 0],
       [label |-> "d",       sep |-> ":",  value |-> <<"1",".","5",".">>, fill |-> 0],
       [label |-> "iron",    sep |-> ":",  value |-> <<"-","2">>, fill |-> 0],
       [label |-> "zinc",    sep |-> "fw", value |-> <<" ","3">>, fill |-> 1200] >>

\* texts the completion service generates
CompletionTexts == {ReportFull, ReportGarbled}

\* choices?.[0]?.message?.content of a response: <<text>>, or <<>> when the
\* response carries no content (null or undefined)
NoContent == <<>>
Contents == {<<t>> : t \in CompletionTexts} \cup {NoContent}

\* content ?? dflt
ContentOr(content, dflt) == IF content = NoContent THEN dflt ELSE content[1]

\* what one client.chat.completions.create call does: resolve or reject
Outcomes ==
    [ok : {TRUE}, text : Contents, status : {NoStatus}]
    \cup [ok : {FALSE}, text : {NoContent}, status : Statuses]

\* ---- String.prototype.slice(0, n) on a generated text ----
\* characters of a label as the prompt of route.ts 249 writes it
LabelLen(label) ==
    CASE label = "kcal"    -> 4
      [] label = "protein" -> 5
      [] label = "fat"     -> 2
      [] label = "carbs"   -> 4
      [] label = "b6"      -> 6
      [] label = "d"       -> 5
      [] label = "mg"      -> 6
      [] label = "iron"    -> 1
      [] label = "zinc"    -> 2
      [] OTHER             -> 0

SepLen(sep) == IF sep = "" THEN 0 ELSE 1

LineLen(line) == LabelLen(line.label) + SepLen(line.sep) + Len(line.value) + line.fill

\* the characters of a text: its lines, and a line feed between two lines
RECURSIVE TextLen(_)
TextLen(text) ==
    IF text = <<>> THEN 0
    ELSE LineLen(Head(text)) + (IF Len(text) > 1 THEN 1 ELSE 0) + TextLen(Tail(text))

\* the first n characters of a line, n < LineLen(line); a label or separator
\* that is cut leaves n characters that are no field any more
CutLine(line, n) ==
    LET head == LabelLen(line.label) + SepLen(line.sep) IN
    IF n < head
    THEN [label |-> "", sep |-> "", value |-> <<>>, fill |-> n]
    ELSE IF n < head + Len(line.value)
         THEN [line EXCEPT !.value = SubSeq(@, 1, n - head), !.fill = 0]
         ELSE [line EXCEPT !.fill = n - head - Len(line.value)]

\* (variant: the text is not cut)
SliceWhole(text, n) == text

\* text.slice(0, n)
RECURSIVE Slice(_, _)
Slice(text, n) ==
    IF text = <<>> \/ n <= 0 THEN <<>>
    ELSE IF LineLen(Head(text)) > n THEN <<CutLine(Head(text), n)>>
    ELSE IF LineLen(Head(text)) = n \/ Len(text) = 1 THEN <<Head(text)>>
    ELSE <<Head(text)>> \o Slice(Tail(text), n - LineLen(Head(text)) - 1)

\* the length the chat reply is cut to (route.ts 324)
ReplyLimit == 1000

RECURSIVE Pow2(_)
Pow2(k) == IF k = 0 THEN 1 ELSE 2 * Pow2(k - 1)

Min(a, b) == IF a <= b THEN a ELSE b

NoError == [status |-> NoStatus, at |-> 0]

\* the locals of callOpenAIWithRetry on entry
NewCall ==
    [state   |-> "running",      \* "running" | "returned" | "thrown"
     attempt |-> 0,
     calls   |-> 0,              \* completions.create calls made
     delays  |-> <<>>,           \* the setTimeout delays slept, in order
     lastErr |-> NoError,        \* the error caught last; `at` is the call that threw it
     resp    |-> <<>>]           \* the text of the response returned

IdleCall == [NewCall EXCEPT !.state = "idle"]

\* (variant: every failure that carries a status is retried)
isRetryableStatusAny(status) == status # NoStatus

isRetryableStatus(status) == status = 429 \/ status >= 500

\* (variant: the backoff without its cap)
delayMsUncapped(attempt) == 500 * Pow2(attempt)

delayMs(attempt) == Min(500 * Pow2(attempt), 2500)

\* the catch block's error bookkeeping: lastErr = e
CaughtError(c, e) == e

\* one iteration of the while loop: the create call settles with outcome o
RetryStep(c, maxRetries, o) ==
    LET n == c.calls + 1 IN
    IF o.ok
    THEN [c EXCEPT !.state = "returned", !.calls = n, !.resp = o.text]
    ELSE LET e == [status |-> o.status, at |-> n]
             c1 == [c EXCEPT !.calls = n, !.lastErr = CaughtError(c, e)]
         IN  IF ~isRetryableStatus(o.status) \/ c.attempt = maxRetries
             THEN [c1 EXCEPT !.state = "thrown"]
             ELSE [c1 EXCEPT !.delays = Append(@, delayMs(c.attempt)),
                             !.attempt = @ + 1]

(***************************************************************************)
(* Corpus of texts for the classifier functions: every concatenation of at *)
(* most MaxWords words of the vocabulary.                                  *)
(***************************************************************************)
Vocabulary ==
    << <<"asa","shoku">>,              \* U+671D U+98DF  breakfast
       <<"L","u","n","c","h">>,        \* Lunch
       <<"yoru">>,                     \* U+591C        night
       KwOyatsu,
       KwHashi,
       <<"R","u","n">>,                \* Run
       KwMeisou,
       KwNikki,
       KwKyou,
       KwKinou,
       KwOtotoi,
       KwYesterday,
       <<"T","o","d","a","y">>,        \* Today
       KwKoremade,
       KwZenkikan,
       KwSenshuu,
       KwKonshuu,
       KwKongetsu,
       <<"sa_k","ra_k","da_k">>,       \* katakana sa-ra-da (salad)
       <<"shoku","be_h","ta_h">>,      \* U+98DF + be + ta (ate)
       <<"no_h">>,                     \* hiragana no
       <<" ">> >>

NV == Len(Vocabulary)

RECURSIVE Power(_, _)
Power(b, k) == IF k = 0 THEN 1 ELSE b * Power(b, k - 1)

RECURSIVE CountTexts(_)
CountTexts(k) == IF k = 0 THEN 1 ELSE Power(NV, k) + CountTexts(k - 1)

NTexts == CountTexts(MaxWords)

\* the i-th text of k words
RECURSIVE Decode(_, _)
Decode(i, k) ==
    IF k = 0 THEN <<>>
    ELSE Vocabulary[(i % NV) + 1] \o Decode(i \div NV, k - 1)

RECURSIVE Locate(_, _)
Locate(i, k) == IF i < Power(NV, k) THEN Decode(i, k) ELSE Locate(i - Power(NV, k), k + 1)

\* the i-th text of the corpus, i in 0..NTexts-1
TextOf(i) == Locate(i, 0)

\* reference days: Sun 2023-12-31, Mon 2024-01-01, Fri 2024-03-01
RefDays == {19722, 19723, 19783}

\* the zone of the process and the hour of the call: UTC in the morning,
\* Japan (UTC+9) in the UTC morning and in the UTC evening (the next day
\* there), New York (UTC-5) in the UTC small hours (the day before there)
RefClocks == {<<3, 0>>, <<3, 9>>, <<20, 9>>, <<3, -5>>}

RefDates == {[day |-> d, hour |-> c[1], tz |-> c[2]] : d \in RefDays, c \in RefClocks}

(***************************************************************************)
(* Harness applying the classifier functions to each text of the corpus    *)
(***************************************************************************)
NoResult ==
    [raw |-> <<>>, userText |-> <<>>, category |-> NULL, mealType |-> NULL,
     mealDate |-> ALL, range |-> NoRange, branch |-> NULL]

ClassIdle == cidx = 0 /\ cnow = NoDate /\ cpc = "idle" /\ cres = NoResult /\ cseen = {}

Classify ==
    /\ cpc = "input"
    /\ LET raw      == TextOf(cidx)
           userText == Trim(raw)
       IN
       /\ cres' = [raw      |-> raw,
                   userText |-> userText,
                   category |-> detectLogCategory(userText),
                   mealType |-> detectMealType(userText),
                   mealDate |-> detectMealDate(userText, cnow),
                   range    |-> detectDateRange(userText, cnow),
                   branch   |-> IF userText = <<>> THEN NULL
                                ELSE Branch(userText, cnow)]
       /\ cseen' = cseen \cup {<<detectLogCategory(userText), detectMealType(userText)>>}
    /\ cpc' = "classified"
    /\ UNCHANGED <<cidx, cnow, retryVars, webVars, remVars>>

NextText ==
    /\ cpc = "classified"
    /\ cidx < NTexts - 1
    /\ cidx' = cidx + 1
    /\ cpc' = "input"
    /\ cres' = NoResult
    /\ UNCHANGED <<cnow, cseen, retryVars, webVars, remVars>>

\* every text of the corpus has been classified
SweepDone == cpc = "classified" /\ cidx = NTexts - 1

(***************************************************************************)
(* Harness running one callOpenAIWithRetry call against every sequence of  *)
(* outcomes of the completion service                                      *)
(***************************************************************************)
RetryIdle == rcall = IdleCall /\ rmax = 0 /\ rhist = <<>>

RetryAttempt ==
    /\ rcall.state = "running"
    /\ \E o \in Outcomes :
         /\ rcall' = RetryStep(rcall, rmax, o)
         /\ rhist' = Append(rhist, o)
    /\ UNCHANGED <<rmax, classVars, webVars, remVars>>

(***************************************************************************)
(* Nutrient parsing (route.ts 255-264): one regular expression per field,  *)
(* label, ':' or full-width ':', optional white space, then [\d.]+        *)
(***************************************************************************)
Digits == {"0","1","2","3","4","5","6","7","8","9"}

RECURSIVE SkipSpace(_)
SkipSpace(v) == IF v # <<>> /\ Head(v) = " " THEN SkipSpace(Tail(v)) ELSE v

RECURSIVE NumPrefix(_)
NumPrefix(v) ==
    IF v # <<>> /\ Head(v) \in Digits \cup {"."}
    THEN <<Head(v)>> \o NumPrefix(Tail(v))
    ELSE <<>>

\* the capture group on one line, <<>> when the line does not match
Capture(line, label) ==
    IF line.label = label /\ line.sep \in {":", "fw"}
    THEN NumPrefix(SkipSpace(line.value))
    ELSE <<>>

\* text.match(/label[:fw]\s*([\d.]+)/)?.[1] || ""
MatchField(text, label) ==
    LET hits == {i \in 1..Len(text) : Capture(text[i], label) # <<>>}
    IN  IF hits = {} THEN <<>>
        ELSE Capture(text[CHOOSE i \in hits : \A j \in hits : i <= j], label)

\* `x || 0` as the cell the store receives
OrZero(x) == IF x = <<>> THEN <<"0">> ELSE x

NutrientLabels == <<"kcal", "protein", "fat", "carbs", "b6", "d", "mg", "iron", "zinc">>

\* now.toTimeString().slice(0, 5)
ClockTime == "12:34"

\* (variant: the meal date column gets the date of logging)
MealRowLoggedDate(userText, now, nutritionText) ==
    << ISODate(now), ClockTime, ISODate(now),
       detectMealType(userText), userText >>
    \o [k \in 1..9 |-> OrZero(MatchField(nutritionText, NutrientLabels[k]))]

\* the row handed to appendMealLog (route.ts 266-281)
MealRow(userText, now, nutritionText) ==
    << ISODate(now), ClockTime, detectMealDate(userText, now),
       detectMealType(userText), userText >>
    \o [k \in 1..9 |-> OrZero(MatchField(nutritionText, NutrientLabels[k]))]

\* the row handed to appendExerciseLog / appendMeditationLog / appendJournalLog
SimpleRow(userText, now) == <<ISODate(now), ClockTime, userText>>

(***************************************************************************)
(* Summary aggregation (route.ts 199-213).  A JavaScript number is         *)
(* [nan, x10]: NaN, or ten times its value (the cells of the model carry   *)
(* at most one fractional digit, so sums are exact).                       *)
(***************************************************************************)
Num(x10) == [nan |-> FALSE, x10 |-> x10]
NaN      == [nan |-> TRUE,  x10 |-> 0]

DigitVal(g) ==
    CASE g = "0" -> 0 [] g = "1" -> 1 [] g = "2" -> 2 [] g = "3" -> 3 [] g = "4" -> 4
      [] g = "5" -> 5 [] g = "6" -> 6 [] g = "7" -> 7 [] g = "8" -> 8 [] g = "9" -> 9

RECURSIVE DigitsVal(_)
DigitsVal(ds) ==
    IF ds = <<>> THEN 0 ELSE 10 * DigitsVal(SubSeq(ds, 1, Len(ds) - 1)) + DigitVal(ds[Len(ds)])

\* Number(s) of an unsigned decimal literal s: digits, at most one point
UnsignedNumber(v) ==
    LET dots == {i \in 1..Len(v) : v[i] = "."}
        ok   == /\ \A i \in 1..Len(v) : v[i] \in Digits \cup {"."}
                /\ Cardinality(dots) <= 1
                /\ \E i \in 1..Len(v) : v[i] \in Digits
        dot  == IF dots = {} THEN Len(v) + 1 ELSE CHOOSE i \in dots : TRUE
        int  == SubSeq(v, 1, dot - 1)
        frac == SubSeq(v, dot + 1, Len(v))
    IN  IF ~ok THEN NaN
        ELSE Num(10 * DigitsVal(int) + (IF frac = <<>> THEN 0 ELSE DigitVal(frac[1])))

\* Number(s) of a string s: white space is trimmed, "" is 0, a decimal
\* literal with an optional sign is its value, anything else is NaN
ToNumber(s) ==
    LET v == Trim(s) IN
    IF v = <<>> THEN Num(0)
    ELSE IF Head(v) = "-"
         THEN LET u == UnsignedNumber(Tail(v)) IN IF u.nan THEN NaN ELSE Num(0 - u.x10)
    ELSE IF Head(v) = "+" THEN UnsignedNumber(Tail(v))
    ELSE UnsignedNumber(v)

\* a + b
Plus(a, b) == IF a.nan \/ b.nan THEN NaN ELSE Num(a.x10 + b.x10)

\* row[k] of a fetched row, counted from 1: trailing empty cells are not
\* returned by the store, the cell is then undefined (here "", which goes
\* the same way through `|| 0`)
Cell(row, k) == IF k <= Len(row) THEN row[k] ELSE <<>>

\* Number(row[k] || 0)
CellNumber(row, k) == ToNumber(OrZero(Cell(row, k)))

\* the totals of the nine nutrients over the fetched rows (route.ts 199-210)
RECURSIVE SumCells(_, _)
SumCells(logs, k) ==
    IF logs = <<>> THEN Num(0)
    ELSE Plus(SumCells(SubSeq(logs, 1, Len(logs) - 1), k), CellNumber(logs[Len(logs)], k))

Totals(logs) == [k \in 1..9 |-> SumCells(logs, 5 + k)]

\* (variant: the days between the two dates, the last one not counted)
DayCountExclusive(start, end) ==
    IF start = ALL \/ end = ALL THEN NaN
    ELSE Num(10 * (DayNumber(end) - DayNumber(start)))

\* route.ts 211: (new Date(end) - new Date(start)) / 86400000 + 1; the
\* string "ALL" is no date, its time is NaN
DayCount(start, end) ==
    IF start = ALL \/ end = ALL THEN NaN
    ELSE Num(10 * (DayNumber(end) - DayNumber(start) + 1))

\* (total / days).toFixed(1): the quotient rounded to one decimal, halves
\* upward; a division by zero gives no finite number (written NaN)
PerDay(total, days) ==
    IF total.nan \/ days.nan \/ days.x10 = 0 THEN NaN
    ELSE LET num == 10 * total.x10 * (IF days.x10 < 0 THEN -1 ELSE 1)
             den == days.x10 * (IF days.x10 < 0 THEN -1 ELSE 1)
         IN  Num((2 * num + den) \div (2 * den))

\* the figures of summaryText (route.ts 215-225): per nutrient the total
\* and the average per day
Averages(totals, days) == [k \in 1..9 |-> PerDay(totals[k], days)]

(***************************************************************************)
(* lib/sheets.ts                                                           *)
(***************************************************************************)
\* (variant: the meditation and journal logs go to each other's sheet)
SheetOfSwapped(category) ==
    CASE category = "meal"       -> "Meal Log"
      [] category = "exercise"   -> "Exercise Log"
      [] category = "meditation" -> "Journal Log"
      [] category = "journal"    -> "Meditation Log"

SheetOf(category) ==
    CASE category = "meal"       -> "Meal Log"
      [] category = "exercise"   -> "Exercise Log"
      [] category = "meditation" -> "Meditation Log"
      [] category = "journal"    -> "Journal Log"

SheetNames == {"Meal Log", "Exercise Log", "Meditation Log", "Journal Log"}

\* values.append with INSERT_ROWS: the row goes below the last one
AppendRow(sh, name, row) == [sh EXCEPT ![name] = Append(@, row)]

SelectRows(rows, Keep(_)) ==
    LET idx == {i \in 1..Len(rows) : Keep(rows[i])}
        RECURSIVE Pick(_)
        Pick(i) == IF i > Len(rows) THEN <<>>
                   ELSE (IF i \in idx THEN <<rows[i]>> ELSE <<>>) \o Pick(i + 1)
    IN  Pick(1)

getMealLogsByRange(sh, start, end) ==
    LET rows == sh["Meal Log"] IN
    IF start = ALL /\ end = ALL THEN rows
    ELSE LET InRange(row) == IsoLeq(start, row[3]) /\ IsoLeq(row[3], end)
         IN  SelectRows(rows, InRange)

\* (variant: the store never tells its first and last meal date)
getMealLogDateRangeNone(sh) == NoRange

\* sheets.ts 72-86: the smallest and the largest meal date of the store
getMealLogDateRange(sh) ==
    LET dates == {sh["Meal Log"][i][3] : i \in 1..Len(sh["Meal Log"])} IN
    IF dates = {} THEN NoRange
    ELSE << CHOOSE d \in dates : \A e \in dates : IsoLeq(d, e),
            CHOOSE d \in dates : \A e \in dates : IsoLeq(e, d) >>

(***************************************************************************)
(* The webhook POST (route.ts 154-340)                                     *)
(***************************************************************************)
\* process.env.LINE_CHANNEL_SECRET, and a key an outsider might sign with
channelSecret == "secret"
Secrets == {channelSecret, "guess"}

\* base64(HMAC-SHA256(bodyText, secret)): a keyed digest, one per (key, body)
Hmac(secret, bodyText) == <<secret, bodyText>>

\* (variant: any signature that is present passes)
SignatureValidIfPresent(signature, hmac) == signature # <<>>

\* route.ts 160, negated: the request passes the signature check
SignatureValid(signature, hmac) == ~(signature = <<>> \/ hmac # signature)

\* messages a text event carries, as words of the vocabulary
Messages ==
    { <<"asa","shoku">> \o <<"no_h">> \o <<"sa_k","ra_k","da_k">>,   \* meal
      KwKinou \o <<"no_h">> \o KwHiru \o <<"shoku">>,               \* meal, yesterday
      KwKonshuu \o <<"no_h">> \o <<"asa","shoku">>,                 \* meal + this week
      KwKoremade \o <<"no_h">> \o <<"asa","shoku">>,                \* meal + entire history
      KwHashi,                                                     \* exercise
      KwSenshuu \o KwHashi,                                        \* exercise + last week
      KwMeisou,                                                    \* meditation
      KwNikki,                                                     \* journal
      <<"sa_k","ra_k","da_k">>,                                    \* none
      KwKongetsu \o <<"no_h">> \o <<"sa_k","ra_k","da_k">>,         \* none + this month
      <<" ">> }                                                    \* blank

\* the events of a delivery: text messages and anything else (follow, image, ...)
EventChoices ==
    [type : {"text"}, text : Messages] \cup [type : {"other"}, text : {<<>>}]

EventLists == UNION {[1..n -> EventChoices] : n \in 0..MaxEvents}

\* request bodies: not JSON at all, the JSON value null, JSON without an
\* events array, and an envelope {events: [...]}
Bodies ==
    [kind : {"notjson", "null", "noevents"}, events : {<<>>}]
    \cup [kind : {"envelope"}, events : EventLists]

OtherBody == [kind |-> "envelope", events |-> <<>>]

\* (variant: a body that is not JSON is read as an empty object)
ParseNeverThrows(body) == FALSE

\* JSON.parse(bodyText) throws
ParseThrows(body) == body.kind = "notjson"

\* json.events throws: json is null
EventsThrows(body) == body.kind = "null"

\* Array.isArray(json.events) ? json.events : []
EventsOf(body) == IF body.kind = "envelope" THEN body.events ELSE <<>>

\* a reply text: which template, the user text echoed, the generated text
\* included, and the range shown
NoReply ==
    [kind |-> "none", echo |-> <<>>, gen |-> <<>>, start |-> ALL, end |-> ALL,
     totals |-> <<>>, days |-> Num(0), avgs |-> <<>>]

\* summaryText (route.ts 211-225), the feedback not yet added
SummaryText(logs, start, end) ==
    LET totals == Totals(logs)
        days   == DayCount(start, end)
    IN  [NoReply EXCEPT !.kind = "summary", !.start = start, !.end = end,
                        !.totals = totals, !.days = days,
                        !.avgs = Averages(totals, days)]

\* ---- per-event task ----
NoTask ==
    [pc |-> "done", branch |-> NULL, failed |-> FALSE, userText |-> <<>>,
     call |-> IdleCall, maxRetries |-> 0, logs |-> <<>>,
     start |-> ALL, end |-> ALL, row |-> <<>>, reply |-> NoReply]

NoEffects ==
    [calls    |-> 0,       \* completions.create calls made
     reads    |-> 0,       \* store reads that returned
     appends  |-> 0,       \* store append calls made
     appended |-> <<>>,    \* <<sheet, row>> of the appends that went through
     replies  |-> <<>>]    \* reply deliveries attempted, with how each ended

\* the fixed reply texts
ReplyNoRecords == [NoReply EXCEPT !.kind = "norecords"]
ReplyFallback  == [NoReply EXCEPT !.kind = "fallback"]
\* the initial replyText of the chat branch (route.ts 312)
ReplyAgain     == [NoReply EXCEPT !.kind = "again"]

\* (variant: an event that is not a text message is answered with the
\* request to say it again)
StartTaskAnswersAll(event, now) ==
    IF event.type # "text" THEN [NoTask EXCEPT !.pc = "reply", !.reply = ReplyAgain]
    ELSE LET userText == Trim(event.text) IN
    IF userText = <<>> THEN NoTask
    ELSE LET branch == Branch(userText, now)
             range  == detectDateRange(userText, now)
             t      == [NoTask EXCEPT !.branch = branch, !.userText = userText]
         IN  CASE branch = "summary" ->
                    [t EXCEPT !.pc = "logs", !.start = range[1], !.end = range[2]]
               [] branch = "meal" ->
                    [t EXCEPT !.pc = "openai", !.call = NewCall, !.maxRetries = 1]
               [] branch \in {"exercise", "meditation", "journal"} ->
                    [t EXCEPT !.pc = "append", !.row = SimpleRow(userText, now)]
               [] branch = "chat" ->
                    [t EXCEPT !.pc = "openai", !.call = NewCall, !.maxRetries = 2]

\* the handler of one event up to its first await (route.ts 171-192,
\* 240-243, 288-290, 296-298, 304-306, 312-314)
StartTask(event, now) ==
    IF event.type # "text" THEN NoTask
    ELSE LET userText == Trim(event.text) IN
    IF userText = <<>> THEN NoTask
    ELSE LET branch == Branch(userText, now)
             range  == detectDateRange(userText, now)
             t      == [NoTask EXCEPT !.branch = branch, !.userText = userText]
         IN  CASE branch = "summary" ->
                    [t EXCEPT !.pc = "logs", !.start = range[1], !.end = range[2]]
               [] branch = "meal" ->
                    [t EXCEPT !.pc = "openai", !.call = NewCall, !.maxRetries = 1]
               [] branch \in {"exercise", "meditation", "journal"} ->
                    [t EXCEPT !.pc = "append", !.row = SimpleRow(userText, now)]
               [] branch = "chat" ->
                    [t EXCEPT !.pc = "openai", !.call = NewCall, !.maxRetries = 2]

\* (variant: one try/catch around all events, so an error in one of them
\* ends the handling of the others where they are)
ThrowAbortsAll(tk, i) ==
    [j \in DOMAIN tk |-> [tk[j] EXCEPT !.pc = "done", !.failed = (j = i) \/ @]]

\* (variant: the catch of an event answers with the fallback text)
ThrowSendsFallback(tk, i) == [tk EXCEPT ![i].pc = "reply", ![i].reply = ReplyFallback]

\* route.ts 329-331: the error of event i is logged and swallowed
Throw(tk, i) == [tk EXCEPT ![i].pc = "done", ![i].failed = TRUE]

\* (variant: an empty row set is summed like any other)
AfterFetchAlwaysSums(t) ==
    [t EXCEPT !.pc = "openai", !.call = NewCall, !.maxRetries = 1,
              !.reply = SummaryText(t.logs, t.start, t.end)]

\* route.ts 194-233: after the row fetch(es) of a summary
AfterFetch(t) ==
    IF Len(t.logs) = 0
    THEN [t EXCEPT !.pc = "reply", !.reply = ReplyNoRecords]
    ELSE [t EXCEPT !.pc = "openai", !.call = NewCall, !.maxRetries = 1,
                   !.reply = SummaryText(t.logs, t.start, t.end)]

\* (variant: the handler answers as soon as one task has returned)
AnySettled(tk) == \E i \in DOMAIN tk : tk[i].pc = "done"

\* Promise.all has settled: every task has returned
AllSettled(tk) == \A i \in DOMAIN tk : tk[i].pc = "done"

\* when and where a request is handled: Mon 2024-01-01 03:00Z by a process
\* in UTC, Fri 2024-03-01 03:00Z by a process in Japan
WebDates == {[day |-> 19723, hour |-> 3, tz |-> 0],
             [day |-> 19783, hour |-> 3, tz |-> 9]}

\* a meal row already in the store, with meal date d: kcal 500, protein
\* 20.5, the fat cell empty, carbs 7, B6 0.3, the vitamin D cell "n/a", and
\* no cell for magnesium, iron and zinc
StoredRow(d) ==
    << CivilDate(d), ClockTime, CivilDate(d), "dinner", KwYoru,
       <<"5","0","0">>, <<"2","0",".","5">>, <<>>, <<"7">>, <<"0",".","3">>,
       <<"n","/","a">> >>

EmptySheets == [n \in SheetNames |-> <<>>]

\* the store before the request: empty, or one meal of two days earlier
InitialSheets(now) ==
    {EmptySheets, [EmptySheets EXCEPT !["Meal Log"] = <<StoredRow(now.day - 2)>>]}

WebIdle ==
    /\ req = [body |-> OtherBody, signature |-> <<>>]
    /\ today = NoDate /\ pc = "idle" /\ response = 0
    /\ task = <<>> /\ effects = <<>> /\ sheets = EmptySheets /\ sheets0 = EmptySheets

\* the server is up and no request has come in yet
WebInit ==
    /\ req = [body |-> OtherBody, signature |-> <<>>]
    /\ today = NoDate /\ pc = "listening" /\ response = 0
    /\ task = <<>> /\ effects = <<>> /\ sheets = EmptySheets /\ sheets0 = EmptySheets

\* a request comes in: any body, under any signature an outsider or the
\* platform can present, on some day, the store holding what it holds then
Arrive ==
    /\ pc = "listening"
    /\ \E body \in Bodies :
         \E sig \in {<<>>} \cup {Hmac(k, b) : k \in Secrets, b \in {body, OtherBody}} :
            req' = [body |-> body, signature |-> sig]
    /\ today' \in WebDates
    /\ sheets' \in InitialSheets(today')
    /\ sheets0' = sheets'
    /\ pc' = "start"
    /\ UNCHANGED <<response, task, effects, classVars, retryVars, remVars>>

\* route.ts 156-163
RejectSignature ==
    /\ pc = "start"
    /\ ~SignatureValid(req.signature, Hmac(channelSecret, req.body))
    /\ response' = 401 /\ pc' = "done"
    /\ UNCHANGED <<req, today, task, effects, sheets, sheets0, classVars, retryVars, remVars>>

\* route.ts 165-166 and 336-339
RejectEnvelope ==
    /\ pc = "start"
    /\ SignatureValid(req.signature, Hmac(channelSecret, req.body))
    /\ ParseThrows(req.body) \/ EventsThrows(req.body)
    /\ response' = 500 /\ pc' = "done"
    /\ UNCHANGED <<req, today, task, effects, sheets, sheets0, classVars, retryVars, remVars>>

\* route.ts 156-166: the request gets past the signature check and the
\* reading of its envelope
Accepted ==
    /\ SignatureValid(req.signature, Hmac(channelSecret, req.body))
    /\ ~ParseThrows(req.body) /\ ~EventsThrows(req.body)

\* route.ts 165-169: every event's handler runs to its first await
Dispatch ==
    /\ pc = "start"
    /\ Accepted
    /\ LET events == EventsOf(req.body) IN
       /\ task' = [i \in 1..Len(events) |-> StartTask(events[i], today)]
       /\ effects' = [i \in 1..Len(events) |-> NoEffects]
    /\ pc' = "tasks"
    /\ UNCHANGED <<req, today, response, sheets, sheets0, classVars, retryVars, remVars>>

\* route.ts 188 / 192: getMealLogsByRange settles
FetchLogs(i) ==
    /\ pc = "tasks" /\ task[i].pc = "logs"
    /\ \/ /\ task' = Throw(task, i)
          /\ UNCHANGED effects
       \/ LET t == [task[i] EXCEPT
                        !.logs = getMealLogsByRange(sheets, task[i].start, task[i].end)]
          IN  /\ task' = [task EXCEPT ![i] =
                            IF t.start = ALL /\ t.end = ALL
                            THEN [t EXCEPT !.pc = "range"]
                            ELSE AfterFetch(t)]
              /\ effects' = [effects EXCEPT ![i].reads = @ + 1]
    /\ UNCHANGED <<req, today, pc, response, sheets, sheets0, classVars, retryVars, remVars>>

\* route.ts 189-190: getMealLogDateRange settles
FetchDateRange(i) ==
    /\ pc = "tasks" /\ task[i].pc = "range"
    /\ \/ /\ task' = Throw(task, i)
          /\ UNCHANGED effects
       \/ LET actualRange == getMealLogDateRange(sheets)
              t == IF actualRange # NoRange
                   THEN [task[i] EXCEPT !.start = actualRange[1], !.end = actualRange[2]]
                   ELSE task[i]
          IN  /\ task' = [task EXCEPT ![i] = AfterFetch(t)]
              /\ effects' = [effects EXCEPT ![i].reads = @ + 1]
    /\ UNCHANGED <<req, today, pc, response, sheets, sheets0, classVars, retryVars, remVars>>

\* route.ts 234-235, 255-281, 324-326: what follows callOpenAIWithRetry
\* (the locals of callOpenAIWithRetry are gone once it has returned or
\* thrown; the handler holds the response it returned, or is in its catch)
AfterCompletion(tk, i, c) ==
    LET t == [tk[i] EXCEPT !.call = [IdleCall EXCEPT !.state = c.state,
                                                     !.resp = c.resp]] IN
    CASE c.state = "running" -> [tk EXCEPT ![i].call = c]
      [] c.state = "returned" /\ t.branch = "summary" ->
           [tk EXCEPT ![i] = [t EXCEPT !.pc = "reply",
                                       !.reply = [t.reply EXCEPT
                                                    !.gen = ContentOr(c.resp, <<>>)]]]
      [] c.state = "returned" /\ t.branch = "meal" ->
           [tk EXCEPT ![i] = [t EXCEPT !.pc = "append",
                                       !.row = MealRow(t.userText, today,
                                                       ContentOr(c.resp, <<>>)),
                                       !.reply = [NoReply EXCEPT !.kind = "recorded",
                                                                 !.gen = ContentOr(c.resp, <<>>)]]]
      [] c.state = "returned" /\ t.branch = "chat" ->
           \* content?.slice(0, 1000) ?? replyText
           [tk EXCEPT ![i] = [t EXCEPT !.pc = "reply",
                                       !.reply = IF c.resp = NoContent THEN ReplyAgain
                                                 ELSE [NoReply EXCEPT
                                                         !.kind = "chat",
                                                         !.gen = Slice(c.resp[1], ReplyLimit)]]]
      [] c.state = "thrown" /\ t.branch = "chat" ->
           [tk EXCEPT ![i] = [t EXCEPT !.pc = "reply", !.reply = ReplyFallback]]
      [] c.state = "thrown" /\ t.branch # "chat" ->
           Throw([tk EXCEPT ![i] = t], i)

\* route.ts 41-60: one completions.create call of event i settles
Completion(i) ==
    /\ pc = "tasks" /\ task[i].pc = "openai"
    /\ \E o \in Outcomes :
         task' = AfterCompletion(task, i, RetryStep(task[i].call, task[i].maxRetries, o))
    /\ effects' = [effects EXCEPT ![i].calls = @ + 1]
    /\ UNCHANGED <<req, today, pc, response, sheets, sheets0, classVars, retryVars, remVars>>

\* route.ts 266-283, 290-291, 298-299, 306-307: the append settles
AppendLog(i) ==
    /\ pc = "tasks" /\ task[i].pc = "append"
    /\ \/ LET t == task[i] IN
          /\ sheets' = AppendRow(sheets, SheetOf(t.branch), t.row)
          /\ effects' = [effects EXCEPT
                            ![i].appends = @ + 1,
                            ![i].appended = Append(@, <<SheetOf(t.branch), t.row>>)]
          /\ task' = [task EXCEPT ![i] =
                        [t EXCEPT !.pc = "reply",
                                  !.reply = IF t.branch = "meal" THEN t.reply
                                            ELSE [NoReply EXCEPT !.kind = t.branch,
                                                                 !.echo = t.userText]]]
       \/ /\ task' = Throw(task, i)
          /\ effects' = [effects EXCEPT ![i].appends = @ + 1]
          /\ UNCHANGED sheets
    /\ UNCHANGED <<req, today, pc, response, sheets0, classVars, retryVars, remVars>>

\* how a reply delivery ends: delivered, fetch rejects, aborted after 8 s
ReplyResults == {"ok", "error", "timeout"}

\* (variant: a delivery that did not go through is an error of the event)
AfterReplyEscalates(tk, i, r) ==
    IF r = "ok" THEN [tk EXCEPT ![i].pc = "done"] ELSE Throw(tk, i)

\* route.ts 79-88: a rejected, failed or aborted delivery is logged inside
\* replyToLine; the caller goes on, and the reply was its last step
AfterReply(tk, i, r) == [tk EXCEPT ![i].pc = "done"]

\* route.ts 66-89: replyToLine settles; it never throws
ReplyToLine(i) ==
    /\ pc = "tasks" /\ task[i].pc = "reply"
    /\ \E r \in ReplyResults :
         /\ effects' = [effects EXCEPT
                          ![i].replies = Append(@, [reply |-> task[i].reply, result |-> r])]
         /\ task' = AfterReply(task, i, r)
    /\ UNCHANGED <<req, today, pc, response, sheets, sheets0, classVars, retryVars, remVars>>

\* route.ts 168, 335: Promise.all resolves and the handler answers
Respond ==
    /\ pc = "tasks"
    /\ AllSettled(task)
    /\ response' = 200 /\ pc' = "done"
    /\ UNCHANGED <<req, today, task, effects, sheets, sheets0, classVars, retryVars, remVars>>

\* the steps of the handler once a request is in
Handle ==
    \/ RejectSignature
    \/ RejectEnvelope
    \/ Dispatch
    \/ \E i \in DOMAIN task : FetchLogs(i)
    \/ \E i \in DOMAIN task : FetchDateRange(i)
    \/ \E i \in DOMAIN task : Completion(i)
    \/ \E i \in DOMAIN task : AppendLog(i)
    \/ \E i \in DOMAIN task : ReplyToLine(i)
    \/ Respond

WebNext == Arrive \/ Handle

(***************************************************************************)
(* The reminder GET (reminder/route.ts)                                    *)
(***************************************************************************)
\* process.env.LINE_USER_ID: <<>> when it is not set, else <<its value>>
UserIds == {<<>>, <<"">>, <<"U1">>, <<"U2">>}

\* searchParams.get("type"): <<>> (null) when the query has no type, else
\* <<its value>>
QueryTypes ==
    {<<>>, <<"">>, <<"morning">>, <<"night">>, <<"Morning">>, <<"NIGHT">>,
     <<"noon">>, <<"morning ">>}

\* !USER_ID is false
Configured(id) == id # <<>> /\ id # <<"">>

\* (variant: the morning text is the default)
MessageOfMorningFirst(type) ==
    IF type = <<"night">> THEN "night" ELSE "morning"

\* reminder/route.ts 42-49: the text pushed, by the name of its template
MessageOf(type) ==
    IF type = <<"morning">> THEN "morning"
    ELSE IF type = <<"night">> THEN "night"
    ELSE "reminder"

\* how a push ends: accepted by LINE, answered with an error status, fetch
\* rejects; pushToLine logs each and never throws (reminder/route.ts 4-25)
PushResults == {"ok", "refused", "error"}

NoResponse == [status |-> 0, ok |-> FALSE, type |-> <<>>, error |-> ""]

RemIdle ==
    /\ USER_ID = <<>> /\ gtype = <<>> /\ gpc = "idle"
    /\ gresponse = NoResponse /\ pushes = <<>>

\* reminder/route.ts 35-40
GetReject ==
    /\ gpc = "start"
    /\ ~Configured(USER_ID)
    /\ gresponse' = [NoResponse EXCEPT !.status = 400, !.error = "LINE_USER_ID not set"]
    /\ gpc' = "done"
    /\ UNCHANGED <<USER_ID, gtype, pushes, classVars, retryVars, webVars>>

\* reminder/route.ts 42-51: the text is chosen and pushToLine settles
GetPush ==
    /\ gpc = "start"
    /\ Configured(USER_ID)
    /\ \E r \in PushResults :
          pushes' = Append(pushes, [to |-> USER_ID[1], text |-> MessageOf(gtype),
                                    result |-> r])
    /\ gpc' = "pushed"
    /\ UNCHANGED <<USER_ID, gtype, gresponse, classVars, retryVars, webVars>>

\* reminder/route.ts 53
GetRespond ==
    /\ gpc = "pushed"
    /\ gresponse' = [NoResponse EXCEPT !.status = 200, !.ok = TRUE, !.type = gtype]
    /\ gpc' = "done"
    /\ UNCHANGED <<USER_ID, gtype, pushes, classVars, retryVars, webVars>>

(***************************************************************************)
(* Specifications                                                          *)
(***************************************************************************)
Init == WebInit /\ ClassIdle /\ RetryIdle /\ RemIdle
Next == WebNext
Spec == Init /\ [][Next]_vars

\* every awaited call settles, so some enabled step is eventually taken
FairSpec == Spec /\ WF_vars(Next)

ClassifyInit == cidx = 0 /\ cnow \in RefDates /\ cpc = "input" /\ cres = NoResult
                /\ cseen = {} /\ RetryIdle /\ WebIdle /\ RemIdle
ClassifyNext == Classify \/ NextText
SpecClassify == ClassifyInit /\ [][ClassifyNext]_vars

RetryInit == rcall = NewCall /\ rmax \in 0..MaxRetriesArg /\ rhist = <<>>
             /\ ClassIdle /\ WebIdle /\ RemIdle
RetryNext == RetryAttempt
SpecRetry == RetryInit /\ [][RetryNext]_vars

ReminderInit == /\ USER_ID \in UserIds /\ gtype \in QueryTypes
                /\ gpc = "start" /\ gresponse = NoResponse /\ pushes = <<>>
                /\ ClassIdle /\ RetryIdle /\ WebIdle
ReminderNext == GetReject \/ GetPush \/ GetRespond
SpecReminder == ReminderInit /\ [][ReminderNext]_vars

(***************************************************************************)
(* Properties of callOpenAIWithRetry (under SpecRetry)                     *)
(***************************************************************************)
\* the sleeps the backoff schedule prescribes before attempts 1..n
BackoffTable == <<500, 1000, 2000, 2500, 2500, 2500, 2500, 2500>>

IsRateLimit(o) == ~o.ok /\ o.status = 429

\* C5: callOpenAIWithRetry makes at most maxRetries+1 attempts, returns the
\* first successful result, and sleeps exactly min(500*2^k, 2500) ms before
\* attempt k+1 (attempts counted from 0); with maxRetries = 2, two rate-limit
\* failures and then a success return that success after sleeping 500 and
\* 1000 ms.
C5_RetryBackoff ==
    /\ rcall.calls = Len(rhist)
    /\ rcall.calls <= rmax + 1
    /\ \A k \in 1..Len(rhist) : k < Len(rhist) => ~rhist[k].ok
    /\ rcall.state = "returned" <=> (rhist # <<>> /\ rhist[Len(rhist)].ok)
    /\ rcall.state = "returned" => rcall.resp = rhist[Len(rhist)].text
    /\ Len(rcall.delays) =
          (IF rcall.state = "running" THEN Len(rhist) ELSE Len(rhist) - 1)
    /\ \A k \in 1..Len(rcall.delays) : rcall.delays[k] = BackoffTable[k]
    /\ ( /\ rmax = 2 /\ Len(rhist) = 3
         /\ IsRateLimit(rhist[1]) /\ IsRateLimit(rhist[2]) /\ rhist[3].ok )
       => ( /\ rcall.state = "returned"
            /\ rcall.resp = rhist[3].text
            /\ rcall.delays = <<500, 1000>> )

\* two rate-limit failures, then a success, with maxRetries = 2
C5_Witness ==
    /\ rmax = 2 /\ Len(rhist) = 3
    /\ IsRateLimit(rhist[1]) /\ IsRateLimit(rhist[2]) /\ rhist[3].ok
    /\ rcall.state = "returned"

\* C6: a failure is retried only if its status is 429 or >= 500; a failure
\* with another status or none, and the failure of attempt maxRetries+1, end
\* the call at once (no sleep, no further attempt) and the error thrown is
\* the error of that last attempt.
C6_RetryClassification ==
    /\ \A k \in 1..Len(rhist) :
          k < Len(rhist) => (rhist[k].status = 429 \/ rhist[k].status >= 500)
    /\ \A k \in 1..Len(rhist) :
          ( /\ ~rhist[k].ok
            /\ \/ ~(rhist[k].status = 429 \/ rhist[k].status >= 500)
               \/ k = rmax + 1 )
          => ( /\ k = Len(rhist)
               /\ rcall.state = "thrown"
               /\ Len(rcall.delays) = k - 1
               /\ rcall.lastErr = [status |-> rhist[k].status, at |-> k] )
    /\ rcall.state = "thrown" => ~rhist[Len(rhist)].ok

\* a retryable failure, then a failure without a status, with retries left
C6_Witness ==
    /\ rmax >= 2 /\ Len(rhist) = 2
    /\ rhist[1].status = 503 /\ ~rhist[2].ok /\ rhist[2].status = NoStatus
    /\ rcall.state = "thrown"

(***************************************************************************)
(* Properties of the classifier functions (under SpecClassify)             *)
(***************************************************************************)
BreakfastKeywords  == {KwAsa, KwBreakfast}
LunchKeywords      == {KwHiru, KwRanchi, KwLunch}
DinnerKeywords     == {KwYoru, KwYuu, KwDinner}
SnackKeywords      == {KwKanshoku, KwOyatsu, KwSnack}
MealKeywords       == BreakfastKeywords \cup LunchKeywords \cup DinnerKeywords
                      \cup SnackKeywords
ExerciseKeywords   == {KwUndou, KwHashi, KwKintore, KwWorkout, KwRun}
MeditationKeywords == {KwMeisou, KwMeditation, KwZazen}
JournalKeywords    == {KwNikki, KwJournal, KwOmotta, KwKanjita}

\* the text, whatever its letter case, contains one of the keywords
Has(text, keywords) == \E kw \in keywords : Includes(ToLowerCase(text), kw)

\* C8: detectLogCategory returns one category with precedence Meal >
\* Exercise > Meditation > Journal > None (a text with a meal keyword and an
\* exercise keyword is Meal); detectMealType returns the first matching type
\* in the order breakfast > lunch > dinner > snack.
C8_Precedence ==
    cpc = "classified" =>
       LET t == cres.userText IN
       /\ cres.category =
            (IF Has(t, MealKeywords) THEN "meal"
             ELSE IF Has(t, ExerciseKeywords) THEN "exercise"
             ELSE IF Has(t, MeditationKeywords) THEN "meditation"
             ELSE IF Has(t, JournalKeywords) THEN "journal"
             ELSE NULL)
       /\ cres.mealType =
            (IF Has(t, BreakfastKeywords) THEN "breakfast"
             ELSE IF Has(t, LunchKeywords) THEN "lunch"
             ELSE IF Has(t, DinnerKeywords) THEN "dinner"
             ELSE IF Has(t, SnackKeywords) THEN "snack"
             ELSE NULL)

\* a text with a lunch keyword and an exercise keyword (e.g. "LunchRun")
\* that came out as a lunch
C8_Witness ==
    /\ cpc = "classified"
    /\ Has(cres.userText, LunchKeywords)
    /\ Has(cres.userText, ExerciseKeywords)
    /\ cres.category = "meal" /\ cres.mealType = "lunch"

\* C9 as stated: some message is categorized Meal while its MealType is
\* Unknown: once every text of the corpus has been classified, one of them
\* has come out as Meal with no meal type.
C9_MealWithUnknownType ==
    SweepDone => <<"meal", NULL>> \in cseen

\* C9 as amended: a message is categorized Meal exactly when detectMealType
\* finds one of the four types, so Unknown never goes with Meal, and a text
\* without a meal keyword takes neither the meal-log nor the summary branch.
C9_MealIffTyped ==
    cpc = "classified" =>
       /\ cres.category = "meal" <=> cres.mealType # NULL
       /\ cres.category = "meal" =>
             cres.mealType \in {"breakfast", "lunch", "dinner", "snack"}
       /\ cres.mealType = NULL => cres.branch \notin {"meal", "summary"}
       /\ <<"meal", NULL>> \notin cseen

\* a text that tells of a meal without any meal keyword, classified
C9_Witness ==
    /\ cpc = "classified"
    /\ Includes(cres.userText, <<"shoku","be_h","ta_h">>)
    /\ cres.mealType = NULL
    /\ cres.category # "meal" /\ cres.branch \notin {NULL, "meal", "summary"}

\* C10 as stated: detectMealDate maps a text with the today phrase to today,
\* with the day-before-yesterday phrase to today-2, with the yesterday phrase
\* to today-1 and any other text to today (a text with several phrases is
\* read in that order).
C10_MealDate ==
    cpc = "classified" =>
       LET t == cres.userText IN
       cres.mealDate =
          (IF Has(t, {KwKyou, KwToday}) THEN ISODate(cnow)
           ELSE IF Has(t, {KwOtotoi}) THEN CivilDate(cnow.day - 2)
           ELSE IF Has(t, {KwKinou, KwYesterday}) THEN CivilDate(cnow.day - 1)
           ELSE ISODate(cnow))

(***************************************************************************)
(* Properties of the webhook POST (under Spec / FairSpec)                  *)
(***************************************************************************)
\* the presented signature is non-empty and is base64(HMAC-SHA256(body, secret))
Authentic ==
    req.signature # <<>> /\ req.signature = Hmac(channelSecret, req.body)

\* nothing was done for any event, and the store is as it was
NothingProcessed ==
    task = <<>> /\ effects = <<>> /\ sheets = sheets0

\* C1: POST processes the events iff the signature is non-empty and equals
\* base64(HMAC-SHA256(body, secret)); for every other signature it returns 401
\* and performs no completion call, no store read or append and no reply.
C1_SignatureGate ==
    pc \in {"tasks", "done"} =>
       /\ response # 401 <=> Authentic
       /\ response = 401 => NothingProcessed
       /\ (Authentic /\ req.body.kind = "envelope") =>
             DOMAIN task = DOMAIN req.body.events

\* a delivery with events, signed with another key, was answered 401
C1_Witness ==
    /\ response = 401
    /\ req.signature = Hmac("guess", req.body)
    /\ Len(req.body.events) > 0

\* C2 as stated: every authenticated request whose body parses as JSON is
\* answered 200.
C2_ParsedIsAnswered200 ==
    (pc = "done" /\ Authentic /\ req.body.kind # "notjson") => response = 200

\* awaited calls a task may still have to wait for, at most
TaskRank(t) ==
    CASE t.pc = "done"   -> 0
      [] t.pc = "reply"  -> 1
      [] t.pc = "append" -> 2
      [] t.pc = "openai" -> 3 + (t.maxRetries - t.call.attempt)
      [] t.pc = "range"  -> 6
      [] t.pc = "logs"   -> 7

RECURSIVE SumRanks(_, _)
SumRanks(tk, n) == IF n = 0 THEN 0 ELSE TaskRank(tk[n]) + SumRanks(tk, n - 1)

\* steps the handler may still take before it has answered, at most
Rank ==
    CASE pc = "listening" -> 3 + 8 * MaxEvents
      [] pc = "start"     -> 2 + 8 * MaxEvents
      [] pc = "tasks"     -> 1 + SumRanks(task, Len(task))
      [] pc = "done"      -> 0

\* C2 as amended: every authenticated request whose body parses to a JSON
\* value other than null is eventually answered 200, whatever its events'
\* completion, store and reply calls do, and only after every per-event task
\* has settled.  (Eventually: while no answer is out a step of the handler
\* is enabled -- Dispatch whenever the request is Accepted, its other
\* conjuncts being assignments -- and every step lowers Rank, so under
\* FairSpec the answer comes.)
C2_Responds200 ==
    /\ [](response = 200 => \A i \in DOMAIN task : task[i].pc = "done")
    /\ []((pc = "done" /\ Authentic /\ req.body.kind \in {"envelope", "noevents"})
            => response = 200)
    /\ [](pc = "start" => (ENABLED RejectSignature \/ ENABLED RejectEnvelope \/ Accepted))
    /\ [](pc = "tasks" => ENABLED Handle)
    /\ [](pc = "done" <=> response # 0)
    /\ [][Rank' < Rank]_vars

\* answered 200 although one event's handling threw and another's reply
\* was not delivered
C2_Witness ==
    /\ response = 200
    /\ \E i \in DOMAIN task : task[i].failed
    /\ \E i \in DOMAIN task :
          effects[i].replies # <<>> /\ effects[i].replies[1].result # "ok"

\* C4 as stated: an authenticated request whose body is not valid JSON, or
\* is JSON without an events array, is answered 500 and no event is processed.
C4_MalformedIs500 ==
    (pc = "done" /\ Authentic /\ req.body.kind \in {"notjson", "null", "noevents"})
       => (response = 500 /\ NothingProcessed)

\* C4 as amended: an authenticated request whose body is not valid JSON, or
\* is the JSON value null, is answered 500; one whose body is any other JSON
\* without an events array is an empty delivery, answered 200; in both cases
\* no event is processed.
C4_MalformedEnvelope ==
    (pc = "done" /\ Authentic) =>
       /\ req.body.kind \in {"notjson", "null"} => (response = 500 /\ NothingProcessed)
       /\ req.body.kind = "noevents" => (response = 200 /\ NothingProcessed)

\* an authenticated body that is not JSON was answered 500
C4_Witness ==
    pc = "done" /\ Authentic /\ req.body.kind = "notjson" /\ response = 500

ReplyKinds(branch) ==
    CASE branch = "summary" -> {"norecords", "summary"}
      [] branch = "meal"    -> {"recorded"}
      [] branch = "chat"    -> {"chat", "again", "fallback"}
      [] OTHER              -> {branch}

\* C7: each non-empty text message takes exactly one branch: summary iff the
\* category is Meal and a range phrase matches; meal log iff Meal and no
\* range; the exercise / meditation / journal log iff that is the category
\* (range phrase or not); chit-chat iff the category is None (range phrase or
\* not); and the store reads, appends, completion calls and replies made for
\* it are those of that branch.
C7_OneBranch ==
    \A i \in DOMAIN task :
       LET event    == req.body.events[i]
           userText == Trim(event.text)
           category == detectLogCategory(userText)
           ranged   == detectDateRange(userText, today) # NoRange
           branch   == task[i].branch
           e        == effects[i]
       IN  (event.type = "text" /\ userText # <<>>) =>
           /\ branch \in {"summary", "meal", "exercise", "meditation", "journal", "chat"}
           /\ branch = "summary" <=> (category = "meal" /\ ranged)
           /\ branch = "meal" <=> (category = "meal" /\ ~ranged)
           /\ \A c \in {"exercise", "meditation", "journal"} : branch = c <=> category = c
           /\ branch = "chat" <=> category = NULL
           /\ e.reads > 0 => branch = "summary"
           /\ e.calls > 0 => branch \in {"summary", "meal", "chat"}
           /\ \A k \in 1..Len(e.appended) :
                 /\ branch \in {"meal", "exercise", "meditation", "journal"}
                 /\ e.appended[k][1] = SheetOf(branch)
           /\ \A k \in 1..Len(e.replies) : e.replies[k].reply.kind \in ReplyKinds(branch)

\* an exercise message with a last-week phrase was logged as exercise
C7_Witness ==
    \E i \in DOMAIN task :
       /\ Includes(task[i].userText, KwSenshuu)
       /\ task[i].branch = "exercise"
       /\ effects[i].appended # <<>>
       /\ effects[i].replies # <<>>


(***************************************************************************)
(* Isolation of the events of one delivery (under Spec)                    *)
(***************************************************************************)
\* what the handling of event i has done so far, and whether it threw
Outcome(i) ==
    [failed   |-> task[i].failed,
     calls    |-> effects[i].calls,
     reads    |-> effects[i].reads,
     appended |-> effects[i].appended,
     replies  |-> effects[i].replies]

Failure(calls, reads) ==
    [failed |-> TRUE, calls |-> calls, reads |-> reads,
     appended |-> <<>>, replies |-> <<>>]

\* one reply was sent, however its delivery ended
Replied(calls, reads, appended, reply) ==
    { [failed |-> FALSE, calls |-> calls, reads |-> reads, appended |-> appended,
       replies |-> << [reply |-> reply, result |-> r] >>] : r \in ReplyResults }

\* the ends callOpenAIWithRetry can come to: the calls made, and the text
\* returned (<<>> with ok = FALSE when it threw)
CallEnds(maxRetries) ==
    [n : 1..(maxRetries + 1), ok : {TRUE}, text : Contents]
    \cup [n : 1..(maxRetries + 1), ok : {FALSE}, text : {<<>>}]

\* o is a way the handling of one event can end when it is the only event
\* of its delivery, its first store read made against the store shLogs and
\* its second against the store shRange
IsSoloOutcome(o, event, now, shLogs, shRange) ==
    IF event.type # "text" \/ Trim(event.text) = <<>>
    THEN o = [failed |-> FALSE, calls |-> 0, reads |-> 0,
              appended |-> <<>>, replies |-> <<>>]
    ELSE
    LET userText == Trim(event.text)
        category == detectLogCategory(userText)
        range    == detectDateRange(userText, now)
        \* the text of the one reply made, if one was made
        gen      == IF o.replies = <<>> THEN <<>> ELSE o.replies[1].reply.gen
    IN
    IF category = "meal" /\ range # NoRange THEN
        LET isAll  == range = <<ALL, ALL>>
            logs   == getMealLogsByRange(shLogs, range[1], range[2])
            actual == getMealLogDateRange(shRange)
            shown  == IF isAll /\ actual # NoRange THEN actual ELSE range
            reads  == IF isAll THEN 2 ELSE 1
        IN  \/ o = Failure(0, 0)
            \/ isAll /\ o = Failure(0, 1)
            \/ logs = <<>> /\ o \in Replied(0, reads, <<>>, ReplyNoRecords)
            \/ /\ logs # <<>>
               /\ \E e \in CallEnds(1) : ~e.ok /\ o = Failure(e.n, reads)
            \/ /\ logs # <<>>
               /\ ~o.failed /\ o.replies # <<>>
               /\ \E e \in CallEnds(1) :
                     e.ok /\ o.calls = e.n /\ gen = ContentOr(e.text, <<>>)
               /\ o \in Replied(o.calls, reads, <<>>,
                                [SummaryText(logs, shown[1], shown[2])
                                    EXCEPT !.gen = gen])
    ELSE IF category = "meal" THEN
        \E e \in CallEnds(1) :
           \/ o = Failure(e.n, 0)
           \/ /\ e.ok /\ ~o.failed /\ o.calls = e.n
              /\ gen = ContentOr(e.text, <<>>)
              /\ o \in Replied(e.n, 0, << <<"Meal Log", MealRow(userText, now, gen)>> >>,
                               [NoReply EXCEPT !.kind = "recorded", !.gen = gen])
    ELSE IF category \in {"exercise", "meditation", "journal"} THEN
        \/ o = Failure(0, 0)
        \/ o \in Replied(0, 0, << <<SheetOf(category), SimpleRow(userText, now)>> >>,
                         [NoReply EXCEPT !.kind = category, !.echo = userText])
    ELSE
        \E e \in CallEnds(2) :
           /\ o.calls = e.n
           /\ o \in Replied(e.n, 0, <<>>,
                            IF ~e.ok THEN ReplyFallback
                            ELSE IF e.text = NoContent THEN ReplyAgain
                            ELSE [NoReply EXCEPT !.kind = "chat",
                                                 !.gen = Slice(e.text[1], ReplyLimit)])

\* the store as the reads of the delivery's events can have found it: the
\* meal rows appended since the request came in go below the rows that were
\* there (the other sheets are never read)
StoreAt(k) == [sheets0 EXCEPT !["Meal Log"] = SubSeq(sheets["Meal Log"], 1, k)]

\* C3 as stated: the events of one delivery are handled independently: once
\* an event's handling has ended, what it did (completion calls, store reads,
\* rows appended, reply sent, or failure) is what it could have done had it
\* been the only event of the delivery, whatever its siblings did or failed
\* to do.
C3_AsIfAlone ==
    \A i \in DOMAIN task :
       task[i].pc = "done" =>
          IsSoloOutcome(Outcome(i), req.body.events[i], today, sheets0, sheets0)

\* C3 as amended: a failure in one event's handling neither stops nor alters
\* the handling of a sibling, and once an event's handling has ended, what it
\* did is what it could have done as the only event of the delivery, given
\* the rows its own store reads returned; those rows may include meal rows
\* that siblings of the same delivery appended in the meantime.
C3_IsolatedUpToStore ==
    \A i \in DOMAIN task :
       task[i].pc = "done" =>
          IF task[i].branch = "summary"
          THEN \E k1 \in Len(sheets0["Meal Log"])..Len(sheets["Meal Log"]) :
                  \E k2 \in k1..Len(sheets["Meal Log"]) :
                     IsSoloOutcome(Outcome(i), req.body.events[i], today,
                                   StoreAt(k1), StoreAt(k2))
          ELSE IsSoloOutcome(Outcome(i), req.body.events[i], today, sheets0, sheets0)

\* two events, the first failed in its append, the second appended its row
\* and replied
C3_Witness ==
    /\ pc = "tasks" /\ Len(task) = 2
    /\ task[1].pc = "done" /\ task[1].failed /\ task[1].branch = "exercise"
    /\ task[2].pc = "done" /\ ~task[2].failed
    /\ effects[2].appended # <<>> /\ effects[2].replies # <<>>


(***************************************************************************)
(* Properties of detectDateRange (under SpecClassify)                      *)
(***************************************************************************)
\* Date.getDay of day number D with Sunday counted as weekday 7
WeekdayOf(D) == IF (D + 4) % 7 = 0 THEN 7 ELSE (D + 4) % 7

\* the range the phrases of text t stand for on reference day D
RangeOn(t, D) ==
    IF Includes(t, KwKoremade) \/ Includes(t, KwZenkikan) THEN <<ALL, ALL>>
    ELSE IF Includes(t, KwSenshuu) THEN <<CivilDate(D - 7), CivilDate(D - 1)>>
    ELSE IF Includes(t, KwKonshuu)
         THEN <<CivilDate(D - (WeekdayOf(D) - 1)), CivilDate(D)>>
    ELSE IF Includes(t, KwKongetsu)
         THEN <<<<CivilDate(D)[1], CivilDate(D)[2], 1>>, CivilDate(D)>>
    ELSE NoRange

\* C11: detectDateRange evaluates the phrases in the precedence entire
\* history > last week > this week > this month and returns, for reference
\* date D (the day of the call, be it the day the process's zone or UTC is
\* in): {ALL, ALL}; {D-7, D-1}; {Monday of D's week, D}; {first day of D's
\* month, D}; null when no phrase matches; and every concrete range has
\* start <= end.
C11_DateRange ==
    cpc = "classified" =>
       /\ \E D \in {cnow.day, LocalDay(cnow)} :
             cres.range = RangeOn(cres.userText, D)
       /\ (cres.range # NoRange /\ cres.range # <<ALL, ALL>>)
             => IsoLeq(cres.range[1], cres.range[2])


(***************************************************************************)
(* Properties of the logging branches (under Spec)                         *)
(***************************************************************************)
\* the rows of sheet n appended by the events of the delivery, so far
AppendedTo(n) ==
    LET RECURSIVE Count(_)
        Count(i) == IF i = 0 THEN 0
                    ELSE Cardinality({k \in 1..Len(effects[i].appended) :
                                         effects[i].appended[k][1] = n}) + Count(i - 1)
    IN  Count(Len(effects))

\* the store holds what it held plus the rows appended, sheet by sheet
StoreGrowsByAppends ==
    \A n \in SheetNames :
       /\ Len(sheets[n]) = Len(sheets0[n]) + AppendedTo(n)
       /\ SubSeq(sheets[n], 1, Len(sheets0[n])) = sheets0[n]

\* the nutrient extraction of meal event i has returned a text
Extracted(i) == task[i].branch = "meal" /\ task[i].reply.kind = "recorded"

\* C12 as stated: for a Meal message without a range phrase whose nutrient
\* extraction succeeds, the event makes exactly one append and exactly one
\* reply.
C12_ExtractedIsReplied ==
    \A i \in DOMAIN task :
       (Extracted(i) /\ task[i].pc = "done") =>
          (effects[i].appends = 1 /\ Len(effects[i].replies) = 1)

\* C12 as amended: for a Meal message without a range phrase the extraction
\* uses at most 2 completion calls; once it has succeeded the event makes
\* exactly one append call, to the meal sheet, of a 14-field row whose 3rd
\* field is the detected meal date and whose 4th field is the detected meal
\* type; if that append goes through, exactly one reply is attempted and it
\* carries the extraction text; if it fails, no reply is made.
C12_MealLogged ==
    /\ StoreGrowsByAppends
    /\ \A i \in DOMAIN task :
          LET t == task[i]
              e == effects[i]
          IN  t.branch = "meal" =>
              /\ e.calls <= 2 /\ e.reads = 0 /\ e.appends <= 1
              /\ Len(e.appended) <= e.appends
              /\ Len(e.replies) <= Len(e.appended)
              /\ ~Extracted(i) => (e.appends = 0 /\ e.replies = <<>>)
              /\ (Extracted(i) /\ t.pc = "done") => e.appends = 1
              /\ (t.pc = "done" /\ ~t.failed) =>
                    (Extracted(i) /\ Len(e.appended) = 1 /\ Len(e.replies) = 1)
              /\ (t.pc = "done" /\ t.failed) => (e.appended = <<>> /\ e.replies = <<>>)
              /\ \A k \in 1..Len(e.appended) :
                    LET row == e.appended[k][2] IN
                    /\ e.appended[k][1] = "Meal Log"
                    /\ Len(row) = 14
                    /\ row[3] = detectMealDate(t.userText, today)
                    /\ row[4] = detectMealType(t.userText)
                    /\ row[5] = t.userText
                    /\ \E j \in 1..Len(sheets["Meal Log"]) : sheets["Meal Log"][j] = row
              /\ \A k \in 1..Len(e.replies) :
                    /\ e.replies[k].reply.kind = "recorded"
                    /\ e.replies[k].reply.gen \in CompletionTexts \cup {<<>>}
                    /\ e.replies[k].reply.gen = t.reply.gen

\* "yesterday's lunch ..." was logged: the row carries yesterday's date and
\* lunch, and the reply was sent
C12_Witness ==
    \E i \in DOMAIN task :
       /\ task[i].branch = "meal" /\ task[i].pc = "done" /\ ~task[i].failed
       /\ Includes(task[i].userText, KwKinou) /\ Includes(task[i].userText, KwHiru)
       /\ Len(effects[i].appended) = 1
       /\ effects[i].appended[1][2][3] = ISODate(AddDays(today, -1))
       /\ effects[i].appended[1][2][3] # ISODate(today)
       /\ effects[i].appended[1][2][4] = "lunch"
       /\ Len(effects[i].replies) = 1


SimpleCategories == {"exercise", "meditation", "journal"}

LogSheet ==
    [exercise |-> "Exercise Log", meditation |-> "Meditation Log", journal |-> "Journal Log"]

\* C13 as stated: for a message categorized Exercise, Meditation or Journal
\* the event makes no completion call, exactly one append and then one reply.
C13_LoggedIsReplied ==
    \A i \in DOMAIN task :
       (task[i].branch \in SimpleCategories /\ task[i].pc = "done") =>
          /\ effects[i].calls = 0
          /\ effects[i].appends = 1
          /\ Len(effects[i].replies) = 1

\* C13 as amended: for a message categorized Exercise, Meditation or Journal
\* the event makes no completion call and no store read, and exactly one
\* append call, of the 3-field row [loggedDate, loggedTime, text], to the
\* sheet of that category and to no other sheet; if the append goes through,
\* one reply with that category's acknowledgement and the text follows; if
\* it fails, no reply is made.
C13_SimpleLogged ==
    /\ StoreGrowsByAppends
    /\ \A i \in DOMAIN task :
          LET t == task[i]
              e == effects[i]
          IN  t.branch \in SimpleCategories =>
              /\ t.branch = detectLogCategory(t.userText)
              /\ e.calls = 0 /\ e.reads = 0 /\ e.appends <= 1
              /\ t.pc = "done" => e.appends = 1
              /\ Len(e.appended) <= e.appends
              /\ Len(e.replies) <= Len(e.appended)
              /\ (t.pc = "done" /\ ~t.failed) => (Len(e.appended) = 1 /\ Len(e.replies) = 1)
              /\ (t.pc = "done" /\ t.failed) => (e.appended = <<>> /\ e.replies = <<>>)
              /\ \A k \in 1..Len(e.appended) :
                    /\ e.appended[k][1] = LogSheet[t.branch]
                    /\ e.appended[k][2] = <<ISODate(today), ClockTime, t.userText>>
                    /\ \E j \in 1..Len(sheets[LogSheet[t.branch]]) :
                          sheets[LogSheet[t.branch]][j] = e.appended[k][2]
              /\ \A k \in 1..Len(e.replies) :
                    /\ e.replies[k].reply.kind = t.branch
                    /\ e.replies[k].reply.echo = t.userText

\* a journal message was logged to the journal sheet and acknowledged
C13_Witness ==
    \E i \in DOMAIN task :
       /\ task[i].branch = "journal" /\ task[i].pc = "done" /\ ~task[i].failed
       /\ effects[i].appended # <<>>
       /\ sheets["Journal Log"] # <<>> /\ sheets["Meditation Log"] = <<>>
       /\ Len(effects[i].replies) = 1 /\ effects[i].replies[1].reply.kind = "journal"


(***************************************************************************)
(* Properties of the chit-chat branch (under Spec)                         *)
(***************************************************************************)
\* text a is what is left of text b when b is cut after some character
IsCutOf(a, b) ==
    /\ Len(a) <= Len(b)
    /\ \A k \in 1..(Len(a) - 1) : a[k] = b[k]
    /\ a # <<>> => (a[Len(a)] = b[Len(a)] \/ LineLen(a[Len(a)]) < LineLen(b[Len(a)]))

EmptySummary(i) ==
    /\ task[i].branch = "summary"
    /\ effects[i].reads >= 1
    /\ task[i].logs = <<>>

\* C15 as stated: a summary request whose fetched row set is empty sends
\* exactly one 'no records' reply
C15_EmptyIsReplied ==
    pc \in {"tasks", "done"} =>
        \A i \in DOMAIN task :
            EmptySummary(i) /\ task[i].pc = "done" =>
                /\ Len(effects[i].replies) = 1
                /\ effects[i].replies[1].reply = ReplyNoRecords

\* C15: a summary request whose fetched row set is empty makes no
\* completion-service call and no store append and computes no totals or
\* averages; it sends nothing but the 'no records' reply, at most once, and
\* once the event is handled exactly once, unless the request was for the
\* entire history and the read of the store's date range failed: then it
\* sends no reply at all
C15_EmptySummary ==
    pc \in {"tasks", "done"} =>
        \A i \in DOMAIN task :
            EmptySummary(i) =>
                /\ effects[i].calls = 0
                /\ effects[i].appends = 0 /\ effects[i].appended = <<>>
                /\ task[i].reply \in {NoReply, ReplyNoRecords}
                /\ task[i].reply.totals = <<>> /\ task[i].reply.avgs = <<>>
                /\ Len(effects[i].replies) <= 1
                /\ \A k \in 1..Len(effects[i].replies) :
                      effects[i].replies[k].reply = ReplyNoRecords
                /\ task[i].pc = "done" =>
                      (Len(effects[i].replies) = 1 <=> ~task[i].failed)
                /\ task[i].failed =>
                      /\ detectDateRange(task[i].userText, today) = <<ALL, ALL>>
                      /\ effects[i].reads = 1

\* an entire-history summary on an empty store and a summary of a given
\* range with no row in it, both answered with the 'no records' reply
C15_Witness ==
    /\ pc = "done" /\ response = 200
    /\ \E i \in DOMAIN task :
          /\ EmptySummary(i) /\ effects[i].reads = 2
          /\ Len(effects[i].replies) = 1
          /\ effects[i].replies[1].reply = ReplyNoRecords
    /\ \E i \in DOMAIN task :
          /\ EmptySummary(i) /\ effects[i].reads = 1 /\ ~task[i].failed
          /\ Len(effects[i].replies) = 1
          /\ effects[i].replies[1].reply = ReplyNoRecords

(***************************************************************************)
(* C16: events that are not text messages                                  *)
(***************************************************************************)
\* C16: for an event that is not a text message the handler makes no
\* reply, no store read or append and no completion-service call and raises
\* no error, whatever the other events of the delivery are and do
C16_NonTextIgnored ==
    pc \in {"tasks", "done"} =>
        \A i \in DOMAIN task :
            req.body.events[i].type # "text" =>
                /\ task[i] = NoTask
                /\ ~task[i].failed
                /\ effects[i].replies = <<>>
                /\ effects[i].reads = 0
                /\ effects[i].appends = 0 /\ effects[i].appended = <<>>
                /\ effects[i].calls = 0
                /\ (\A j \in DOMAIN task : req.body.events[j].type # "text")
                      => sheets = sheets0

\* a delivery answered 200 in which an event that is not a text message
\* came before a text message that was replied to
C16_Witness ==
    /\ pc = "done" /\ response = 200
    /\ Len(task) = 2
    /\ req.body.events[1].type # "text"
    /\ req.body.events[2].type = "text"
    /\ Len(effects[2].replies) = 1
    /\ effects[1] = NoEffects

(***************************************************************************)
(* C17: reply delivery is best effort                                      *)
(***************************************************************************)
\* C17: an event makes at most one reply-delivery attempt; however the
\* attempt ended (delivered, failed, aborted after 8 s) the event is then
\* handled, without an error and without a further attempt; and a request
\* that got past the envelope is answered 200 whatever its deliveries did
C17_BestEffortReply ==
    pc \in {"tasks", "done"} =>
        /\ \A i \in DOMAIN task :
              /\ Len(effects[i].replies) <= 1
              /\ Len(effects[i].replies) = 1 =>
                    /\ task[i].pc = "done"
                    /\ ~task[i].failed
                    /\ effects[i].replies[1].result \in ReplyResults
                    /\ ~ENABLED ReplyToLine(i)
        /\ pc = "tasks" => response = 0
        /\ pc = "done" /\ Accepted => response = 200

\* a delivery answered 200 with one reply that failed and one that was
\* aborted by the timeout
C17_Witness ==
    /\ pc = "done" /\ response = 200
    /\ Len(task) = 2
    /\ Len(effects[1].replies) = 1 /\ effects[1].replies[1].result = "error"
    /\ Len(effects[2].replies) = 1 /\ effects[2].replies[1].result = "timeout"
    /\ ~task[1].failed /\ ~task[2].failed

(***************************************************************************)
(* C18: the reminder GET (under SpecReminder)                              *)
(***************************************************************************)
\* C18: with no recipient configured the reminder GET answers 400 and
\* pushes nothing; otherwise it makes exactly one push, to the configured
\* recipient, of the morning text for type "morning", the night text for
\* type "night" and the default text for any other or missing type, and
\* answers 200 with {ok: true, type} however the push ended
C18_ReminderGet ==
    /\ Len(pushes) <= 1
    /\ gpc # "done" => gresponse = NoResponse
    /\ gpc = "done" =>
          IF USER_ID = <<>> \/ USER_ID = <<"">>
          THEN /\ gresponse.status = 400 /\ ~gresponse.ok
               /\ pushes = <<>>
          ELSE /\ Len(pushes) = 1
               /\ pushes[1].to = USER_ID[1]
               /\ pushes[1].text = (CASE gtype = <<"morning">> -> "morning"
                                      [] gtype = <<"night">>   -> "night"
                                      [] OTHER                 -> "reminder")
               /\ pushes[1].result \in {"ok", "refused", "error"}
               /\ gresponse = [status |-> 200, ok |-> TRUE, type |-> gtype, error |-> ""]

\* a reminder of a type that is neither morning nor night whose push failed
\* and that was answered {ok: true, type}
C18_Witness ==
    /\ gpc = "done"
    /\ gtype = <<"noon">>
    /\ Len(pushes) = 1 /\ pushes[1].result = "error" /\ pushes[1].text = "reminder"
    /\ gresponse.status = 200 /\ gresponse.ok /\ gresponse.type = <<"noon">>

(***************************************************************************)
(* C19: the totals and averages of a summary                               *)
(***************************************************************************)
\* the value of a cell as a number of tenths, 0 when the cell is missing,
\* empty or not a number
ValueOrZero(row, k) ==
    IF k > Len(row) THEN 0
    ELSE IF ToNumber(row[k]).nan THEN 0
    ELSE ToNumber(row[k]).x10

RECURSIVE SumOrZero(_, _)
SumOrZero(logs, k) ==
    IF logs = <<>> THEN 0 ELSE ValueOrZero(Head(logs), k) + SumOrZero(Tail(logs), k)

\* avg is total / days to one decimal (both counted in tenths): no number
\* of tenths is nearer
IsPerDay(avg, total, days) ==
    LET diff == avg * days - total
    IN  2 * (IF diff < 0 THEN 0 - diff ELSE diff) <= days

\* the summary figures event i has computed
Summed(i) == task[i].branch = "summary" /\ task[i].reply.kind = "summary"

\* C19: in a summary over a non-empty row set each of the nine totals is
\* the sum over the fetched rows of the nutrient's cell, a missing or
\* non-numeric cell counting as 0, and each average is the total divided
\* by the number of days
C19_Totals ==
    pc \in {"tasks", "done"} =>
        \A i \in DOMAIN task :
            Summed(i) =>
                \A k \in 1..9 :
                    /\ ~task[i].reply.totals[k].nan
                    /\ task[i].reply.totals[k].x10 = SumOrZero(task[i].logs, 5 + k)
                    /\ ~task[i].reply.avgs[k].nan
                    /\ IsPerDay(task[i].reply.avgs[k].x10,
                                task[i].reply.totals[k].x10,
                                DayNumber(task[i].end) - DayNumber(task[i].start) + 1)

(***************************************************************************)
(* C20: the day count of a summary                                         *)
(***************************************************************************)
\* the day numbers the dates of the model lie in
DayRange == 19700..19800

\* the day number of a civil date, by search
DayOf(iso) == CHOOSE n \in DayRange : CivilDate(n) = iso

\* C20: in every summary that computes averages the range shown is the
\* one detectDateRange gave or, for an entire-history request, the first and
\* last meal date the store held when it was read, and the day count is the
\* number of days from start to end plus one, which is at least 1
C20_DayCount ==
    pc \in {"tasks", "done"} =>
        \A i \in DOMAIN task :
            Summed(i) =>
                LET r     == task[i].reply
                    range == detectDateRange(task[i].userText, today)
                IN  /\ r.start # ALL /\ r.end # ALL
                    /\ IF range = <<ALL, ALL>>
                       THEN \E k \in Len(sheets0["Meal Log"])..Len(sheets["Meal Log"]) :
                               <<r.start, r.end>> = getMealLogDateRange(StoreAt(k))
                       ELSE <<r.start, r.end>> = range
                    /\ ~r.days.nan
                    /\ r.days.x10 = 10 * ((DayOf(r.end) - DayOf(r.start)) + 1)
                    /\ r.days.x10 >= 10

\* an entire-history summary, replied to, whose range was taken from a
\* store holding meals of several days
C20_Witness ==
    \E i \in DOMAIN task :
        /\ Summed(i) /\ task[i].pc = "done"
        /\ detectDateRange(task[i].userText, today) = <<ALL, ALL>>
        /\ Len(effects[i].replies) = 1
        /\ effects[i].replies[1].reply.days.x10 >= 20
        /\ effects[i].replies[1].reply.start # effects[i].replies[1].reply.end

(***************************************************************************)
(* C21: the entire-history range is replaced before it is used             *)
(***************************************************************************)
\* event i is an entire-history summary that has computed its figures
SummedAll(i) ==
    Summed(i) /\ detectDateRange(task[i].userText, today) = <<ALL, ALL>>

\* C21: in a summary of the entire history the two dates have been
\* replaced, before the day count and the text are made, by the smallest
\* and largest meal date the store held when it was asked, so that no
\* average is NaN on account of the range; the rows summed are all the rows
\* the store held when they were fetched, whatever their dates
C21_AllSubstituted ==
    pc \in {"tasks", "done"} =>
        \A i \in DOMAIN task :
            SummedAll(i) =>
                LET r == task[i].reply
                    n == Len(task[i].logs)
                IN  /\ effects[i].reads = 2
                    /\ r.start # ALL /\ r.end # ALL
                    /\ \E k \in n..Len(sheets["Meal Log"]) :
                          <<r.start, r.end>> = getMealLogDateRange(StoreAt(k))
                    /\ ~r.days.nan
                    /\ \A k \in 1..9 : r.avgs[k].nan => r.totals[k].nan
                    /\ n >= Len(sheets0["Meal Log"]) /\ n <= Len(sheets["Meal Log"])
                    /\ task[i].logs = SubSeq(sheets["Meal Log"], 1, n)
                    /\ r.totals = Totals(SubSeq(sheets["Meal Log"], 1, n))
                    /\ \A k \in 1..Len(effects[i].replies) :
                          /\ effects[i].replies[k].reply.start = r.start
                          /\ effects[i].replies[k].reply.end = r.end

\* an entire-history summary over two rows, one of them appended while the
\* request was handled, replied to with the dates of the store
C21_Witness ==
    \E i \in DOMAIN task :
        /\ SummedAll(i) /\ task[i].pc = "done"
        /\ Len(task[i].logs) = 2
        /\ Len(sheets0["Meal Log"]) = 1
        /\ Len(effects[i].replies) = 1
        /\ effects[i].replies[1].reply.start = task[i].logs[1][3]
        /\ effects[i].replies[1].reply.end = task[i].logs[2][3]

(***************************************************************************)
(* C22: the nutrient values parsed from the extraction text                *)
(***************************************************************************)
\* the lines of a text that carry the label, in order
OwnLines(text, label) ==
    LET Own(line) == line.label = label IN SelectRows(text, Own)

\* event i is a meal log that has parsed its extraction text
Parsed(i) == task[i].branch = "meal" /\ task[i].row # <<>>

\* C22: each of the nine values handed to the store is a number that is
\* not negative, it is 0 when the text has no line of its label with a
\* numeric value, it depends on the lines of its own label only, and no
\* parse miss fails the event
C22_NutrientParsing ==
    pc \in {"tasks", "done"} =>
        \A i \in DOMAIN task :
            Parsed(i) =>
                \A k \in 1..9 :
                    LET cell == task[i].row[5 + k]
                        text == task[i].reply.gen
                        own  == OwnLines(text, NutrientLabels[k])
                    IN  /\ ~ToNumber(cell).nan
                        /\ ToNumber(cell).x10 >= 0
                        /\ (\A n \in 1..Len(own) :
                              \/ own[n].sep \notin {":", "fw"}
                              \/ NumPrefix(SkipSpace(own[n].value)) = <<>>
                              \/ ToNumber(NumPrefix(SkipSpace(own[n].value))).nan)
                              => cell = <<"0">>
                        /\ cell = OrZero(MatchField(own, NutrientLabels[k]))
                        /\ task[i].call.state = "returned"

(***************************************************************************)
(* C23: in the meal and summary branches a failed call means no reply      *)
(***************************************************************************)
\* C23: for a meal log or a summary, a reply is sent only when every
\* external call the event made before it went through: when the
\* completion call fails after its retries nothing is appended and nothing
\* is sent (not the summary already computed either), when the append of
\* the meal row fails nothing is sent, when a read of the store fails
\* nothing is sent
C23_ReplyAfterSuccess ==
    pc \in {"tasks", "done"} =>
        \A i \in DOMAIN task :
            task[i].branch \in {"meal", "summary"} =>
                /\ effects[i].calls <= 2
                /\ task[i].failed =>
                      /\ task[i].pc = "done"
                      /\ effects[i].replies = <<>>
                /\ task[i].call.state = "thrown" =>
                      /\ task[i].failed
                      /\ effects[i].appends = 0 /\ effects[i].appended = <<>>
                      /\ effects[i].replies = <<>>
                /\ (effects[i].appends = 1 /\ effects[i].appended = <<>>) =>
                      /\ task[i].failed
                      /\ effects[i].replies = <<>>
                /\ effects[i].replies # <<>> =>
                      /\ ~task[i].failed
                      /\ effects[i].calls > 0 => task[i].call.state = "returned"
                      /\ task[i].branch = "meal" =>
                            /\ effects[i].calls > 0
                            /\ effects[i].appends = 1 /\ Len(effects[i].appended) = 1
                      /\ task[i].branch = "summary" =>
                            effects[i].reads =
                               IF detectDateRange(task[i].userText, today) = <<ALL, ALL>>
                               THEN 2 ELSE 1

\* a delivery of a meal log whose append failed and a summary whose feedback
\* call failed after its retry: neither was replied to, though the summary
\* had been computed
C23_Witness ==
    /\ pc = "done" /\ response = 200
    /\ \E i \in DOMAIN task :
          /\ task[i].branch = "meal" /\ task[i].failed
          /\ effects[i].appends = 1 /\ effects[i].appended = <<>>
          /\ effects[i].replies = <<>>
    /\ \E i \in DOMAIN task :
          /\ task[i].branch = "summary" /\ task[i].failed
          /\ task[i].call.state = "thrown" /\ effects[i].calls = 2
          /\ task[i].reply.kind = "summary"
          /\ effects[i].replies = <<>>

(***************************************************************************)
(* C24: the range shown by an entire-history summary and the rows summed   *)
(***************************************************************************)
\* the smallest and largest meal date of the rows, NoRange when none
DatesOf(rows) ==
    LET dates == {rows[n][3] : n \in 1..Len(rows)} IN
    IF dates = {} THEN NoRange
    ELSE << CHOOSE d \in dates : \A e \in dates : IsoLeq(d, e),
            CHOOSE d \in dates : \A e \in dates : IsoLeq(e, d) >>

\* C24: in a summary of the entire history the start and end shown are the
\* smallest and the largest meal date of exactly the rows that were summed,
\* whatever the other events of the delivery append in the meantime
C24_RangeOfRowsSummed ==
    pc \in {"tasks", "done"} =>
        \A i \in DOMAIN task :
            SummedAll(i) =>
                /\ task[i].reply.totals = Totals(task[i].logs)
                /\ <<task[i].reply.start, task[i].reply.end>> = DatesOf(task[i].logs)

====
